---- MODULE Spec2Model ----
(***************************************************************************)
(* Theeni POS API: the order ledger, the catalog / customer directory, the *)
(* reporting engine and the token service, as a state machine over the     *)
(* shared PostgreSQL store.                                                *)
(*                                                                         *)
(* Units.  Money is an integer number of cents, a quantity is an integer   *)
(* number of units, a discount is an integer percentage.  Time is an       *)
(* integer number of ticks, TicksPerDay ticks to the day; the date d is    *)
(* the instant d * TicksPerDay (its midnight).  NULL is 0 (ids start at 1).*)
(***************************************************************************)
EXTENDS Integers, Sequences, FiniteSets, TLC

\* ------------------------------------------------------------------ bounds
MaxOrders == 1      \* orders id sequence values, requests running concurrently
MaxItems == 3       \* values the items id sequence may hand out
MaxCustomers == 2   \* values the customers id sequence may hand out
TicksPerDay == 2    \* resolution of the clock
MaxTime == 4        \* last instant of the clock
MaxIssued == 1      \* tokens /token may hand out
MaxCartLen == 2     \* lines of a cart, where the carts are enumerated
MaxReportOrders == 2 \* orders id sequence values, where the clock runs

NULL == 0
NoDate == 0 - 1

\* the request handlers that may run at once
Workers == {1, 2}

\* ------------------------------------------------------------ program data
\* settings.py: ACCESS_TOKEN_EXPIRE_MINUTES, ALGORITHM, SECRET_KEY
ACCESS_TOKEN_EXPIRE_MINUTES == 60 * 24
ALGORITHM == "HS256"
SECRET_KEY == "secret"

\* timedelta(minutes = m), in ticks
Minutes(m) == (m * TicksPerDay) \div (24 * 60)
\* the instant of a date (its midnight)
Midnight(d) == d * TicksPerDay

VARIABLES
    now,          \* the clock (datetime.now / the store's now())
    users,        \* table users: username -> [hashed_password, role]
    items,        \* table items: set of [id, price]
    customers,    \* table customers: set of ids
    orders,       \* table orders, committed rows
    order_items,  \* table order_items, committed rows
    seq,          \* the store's id sequences: [orders, order_items, items, customers]
    req,          \* per worker: the request it is handling and its response
    placed,       \* history: order id -> the request that committed the order
    aborted,      \* history: order ids whose createOrder rolled back
    issued,       \* history: tokens handed out by /token
    verified      \* the last outcome of get_current_user: [token, at, status, users]

vars == <<now, users, items, customers, orders, order_items, seq, req,
          placed, aborted, issued, verified>>

store == <<items, customers, orders, order_items>>

\* =========================================================== token service
NoSub == ""
Usernames == {"alice", "bob", "dave"}

\* security.get_password_hash / security.verify_password (passlib bcrypt)
get_password_hash(password) == <<"bcrypt", password>>
verify_password(plain_password, hashed_password) ==
    get_password_hash(plain_password) = hashed_password

\* a bearer token: present (an Authorization header was sent), wf (it parses as
\* a JWT), key and alg (what it was signed with), and the payload sub, role, exp
Token(wf, key, alg, sub, role, exp) ==
    [present |-> TRUE, wf |-> wf, key |-> key, alg |-> alg,
     sub |-> sub, role |-> role, exp |-> exp]
NoToken ==
    [present |-> FALSE, wf |-> FALSE, key |-> "", alg |-> "",
     sub |-> NoSub, role |-> "", exp |-> 0]

\* security.create_access_token at instant t
create_access_token(data, t) ==
    Token(TRUE, SECRET_KEY, ALGORITHM, data.sub, data.role,
          t + Minutes(ACCESS_TOKEN_EXPIRE_MINUTES))

\* jose.jwt.decode(token, SECRET_KEY, algorithms=[ALGORITHM]) at instant t:
\* TRUE when it returns the payload, FALSE when it raises JWTError
jwt_decode_no_exp_check(tok, t) ==
    tok.wf /\ tok.key = SECRET_KEY /\ tok.alg = ALGORITHM
jwt_decode_any_key(tok, t) ==
    tok.wf /\ ~(tok.exp < t)
jwt_decode(tok, t) ==
    tok.wf /\ tok.key = SECRET_KEY /\ tok.alg = ALGORITHM /\ ~(tok.exp < t)

\* security.get_user
get_user(username, tbl) ==
    IF username \in DOMAIN tbl
    THEN [found |-> TRUE, username |-> username, role |-> tbl[username].role,
          hashed_password |-> tbl[username].hashed_password]
    ELSE [found |-> FALSE, username |-> NoSub, role |-> "",
          hashed_password |-> <<>>]

Denied(code) == [status |-> code, username |-> NoSub, role |-> ""]

\* security.get_current_user (with oauth2_scheme, which answers 401 when no
\* bearer token is sent): the identity, or the 401
get_current_user(tok, t, tbl) ==
    IF ~tok.present THEN Denied(401)
    ELSE IF ~jwt_decode(tok, t) THEN Denied(401)
    ELSE IF tok.sub = NoSub THEN Denied(401)
    ELSE IF ~get_user(tok.sub, tbl).found THEN Denied(401)
    ELSE [status |-> 200, username |-> tok.sub,
          role |-> get_user(tok.sub, tbl).role]

\* security.get_current_admin_user
get_current_admin_user_no_check(tok, t, tbl) == get_current_user(tok, t, tbl)
get_current_admin_user(tok, t, tbl) ==
    LET current_user == get_current_user(tok, t, tbl) IN
    IF current_user.status # 200 THEN current_user
    ELSE IF current_user.role # "admin" THEN [current_user EXCEPT !.status = 403]
    ELSE current_user

\* ============================================================ order ledger
\* one cart line of OrderCreate: OrderItemCreate(id, quantity, price)
Line(id, quantity, price) == [id |-> id, quantity |-> quantity, price |-> price]

RECURSIVE SumSeq(_)
SumSeq(s) == IF s = <<>> THEN 0 ELSE Head(s) + SumSeq(Tail(s))

\* create_order: subtotal = sum(item.quantity * item.price for item in cart)
Subtotal_prices_only(cart) == SumSeq([i \in 1..Len(cart) |-> cart[i].price])
Subtotal(cart) == SumSeq([i \in 1..Len(cart) |-> cart[i].quantity * cart[i].price])

\* the orders table's computed columns
FinalTotal(subtotal, discount_percentage) ==
    (subtotal * (100 - discount_percentage) + 50) \div 100
DiscountAmount(subtotal, discount_percentage) ==
    subtotal - FinalTotal(subtotal, discount_percentage)
\* the order_items table's computed column
LineSubtotal(quantity, price_per_unit) == quantity * price_per_unit

\* the row INSERT INTO orders (subtotal, discount_percentage, customer_id) makes
OrderRow(id, subtotal, discount_percentage, customer_id, created_at) ==
    [id |-> id, subtotal |-> subtotal,
     discount_percentage |-> discount_percentage,
     final_total |-> FinalTotal(subtotal, discount_percentage),
     discount_amount |-> DiscountAmount(subtotal, discount_percentage),
     customer_id |-> customer_id, created_at |-> created_at]

\* the rows executemany INSERT INTO order_items (...) makes, ids from first + 1
OrderItemRows(order_id, cart, first) ==
    { [id |-> first + i, order_id |-> order_id, item_id |-> cart[i].id,
       quantity |-> cart[i].quantity, price_per_unit |-> cart[i].price,
       subtotal |-> LineSubtotal(cart[i].quantity, cart[i].price)]
      : i \in 1..Len(cart) }

ItemIds == {i.id : i \in items}

\* ================================================================ requests
NoSummary == [total_revenue |-> 0, total_orders |-> 0, total_discount_given |-> 0]

\* a worker between requests
Idle ==
    [op |-> "idle", pc |-> "idle", status |-> 0, role |-> "", touched |-> FALSE,
     cart |-> <<>>, disc |-> 0, cust |-> NULL, total |-> 0, id |-> NULL,
     price |-> 0,
     sd |-> NoDate, ed |-> NoDate, oid |-> NULL, at |-> 0,
     q1 |-> {}, q2 |-> {},
     summary |-> NoSummary, rows |-> <<>>]

Free(w) == req[w].pc \in {"idle", "done"}
At(w, op, pc) == req[w].op = op /\ req[w].pc = pc

\* the request as it stands once its dependencies are resolved: answered with
\* the dependency's 401 / 403, or entering the handler body
Entered(op, auth) ==
    [Idle EXCEPT !.op = op, !.role = auth.role,
                 !.status = IF auth.status = 200 THEN 0 ELSE auth.status,
                 !.pc = IF auth.status = 200 THEN "body" ELSE "done"]

\* the handler returns or raises: the response, and of the request only what it
\* was about (the operation, the identity, the target id, the dates)
Answer(r, code) ==
    [Idle EXCEPT !.op = r.op, !.pc = "done", !.status = code, !.role = r.role,
                 !.touched = r.touched, !.id = r.id, !.oid = r.oid,
                 !.sd = r.sd, !.ed = r.ed, !.q1 = r.q1, !.q2 = r.q2,
                 !.summary = r.summary, !.rows = r.rows]

UNCHANGED_auth == UNCHANGED <<now, users, issued, verified>>

\* ------------------------------------------------------------ create_order
\* What the other connections see of the orders table right after the header's
\* INSERT: the statement runs inside conn.transaction(), so nothing new
AfterHeaderInsertAutocommit(committed, row) == committed \cup {row}
AfterHeaderInsert(committed, row) == committed

\* create_order up to and including INSERT INTO orders ... RETURNING id
\* (total: a key of the JSON body that OrderCreate does not declare)
create_order_insert_header(w, tok, cart, disc, cust, total) ==
    /\ Free(w)
    /\ LET auth == get_current_user(tok, now, users)
           r == [Entered("create_order", auth) EXCEPT
                    !.cart = cart, !.disc = disc, !.cust = cust, !.total = total]
           order_id == seq.orders + 1
           row == OrderRow(order_id, Subtotal(cart), disc, cust, now)
       IN  IF auth.status # 200
           THEN /\ req' = [req EXCEPT ![w] = r]
                /\ UNCHANGED <<orders, seq, aborted>>
           ELSE IF cust # NULL /\ cust \notin customers
           THEN \* foreign key orders.customer_id: the statement raises
                /\ req' = [req EXCEPT ![w] =
                             Answer([r EXCEPT !.touched = TRUE], 500)]
                /\ seq' = [seq EXCEPT !.orders = order_id]
                /\ aborted' = aborted \cup {order_id}
                /\ UNCHANGED orders
           ELSE /\ req' = [req EXCEPT ![w] =
                             [r EXCEPT !.touched = TRUE, !.pc = "lines",
                                       !.oid = order_id, !.at = now]]
                /\ seq' = [seq EXCEPT !.orders = order_id]
                /\ orders' = AfterHeaderInsert(orders, row)
                /\ UNCHANGED aborted
    /\ UNCHANGED <<items, customers, order_items, placed>>
    /\ UNCHANGED_auth

\* the cart lines executemany gets through: all, or up to the first one whose
\* item_id violates the foreign key order_items.item_id
Attempted(cart) ==
    IF \A i \in 1..Len(cart) : cart[i].id \in ItemIds THEN Len(cart)
    ELSE CHOOSE i \in 1..Len(cart) :
            /\ cart[i].id \notin ItemIds
            /\ \A j \in 1..(i - 1) : cart[j].id \in ItemIds

\* create_order from executemany INSERT INTO order_items to the end of
\* conn.transaction(): commit, or roll back when the statement raises
create_order_insert_items(w) ==
    /\ At(w, "create_order", "lines")
    /\ LET r == req[w]
           row == OrderRow(r.oid, Subtotal(r.cart), r.disc, r.cust, r.at)
       IN  /\ seq' = [seq EXCEPT !.order_items = @ + Attempted(r.cart)]
           /\ IF \A i \in 1..Len(r.cart) : r.cart[i].id \in ItemIds
              THEN /\ orders' = orders \cup {row}
                   /\ order_items' = order_items \cup
                         OrderItemRows(r.oid, r.cart, seq.order_items)
                   /\ placed' = (r.oid :> [cart |-> r.cart, disc |-> r.disc,
                                          cust |-> r.cust, total |-> r.total]) @@ placed
                   /\ req' = [req EXCEPT ![w] = Answer(r, 200)]
                   /\ UNCHANGED aborted
              ELSE /\ req' = [req EXCEPT ![w] = Answer(r, 500)]
                   /\ aborted' = aborted \cup {r.oid}
                   /\ UNCHANGED <<orders, order_items, placed>>
    /\ UNCHANGED <<items, customers>>
    /\ UNCHANGED_auth

\* the store fails while the line items are written (connection lost, statement
\* error): the exception leaves conn.transaction(), which rolls back
create_order_fault(w) ==
    /\ At(w, "create_order", "lines")
    /\ req' = [req EXCEPT ![w] = Answer(req[w], 500)]
    /\ aborted' = aborted \cup {req[w].oid}
    /\ UNCHANGED <<items, customers, orders, order_items, seq, placed>>
    /\ UNCHANGED_auth

\* ------------------------------------------------- catalog and customers
\* the foreign keys' ON DELETE SET NULL
SetNullItem(rows, item_id) ==
    { IF l.item_id = item_id THEN [l EXCEPT !.item_id = NULL] ELSE l : l \in rows }
SetNullCustomer(rows, customer_id) ==
    { IF o.customer_id = customer_id THEN [o EXCEPT !.customer_id = NULL] ELSE o
      : o \in rows }

\* add_item: INSERT INTO items ... RETURNING id
add_item(w, tok, price) ==
    /\ Free(w)
    /\ seq.items < MaxItems
    /\ LET auth == get_current_admin_user(tok, now, users)
           r == [Entered("add_item", auth) EXCEPT !.price = price]
       IN  IF auth.status # 200
           THEN /\ req' = [req EXCEPT ![w] = r]
                /\ UNCHANGED <<items, seq>>
           ELSE /\ items' = items \cup {[id |-> seq.items + 1, price |-> price]}
                /\ seq' = [seq EXCEPT !.items = @ + 1]
                /\ req' = [req EXCEPT ![w] =
                     Answer([r EXCEPT !.touched = TRUE, !.id = seq.items + 1], 201)]
    /\ UNCHANGED <<customers, orders, order_items, placed, aborted>>
    /\ UNCHANGED_auth

\* update_item and delete_item: SELECT id FROM items WHERE id = %s, then 404
\* when cur.rowcount == 0
item_select(w, op, tok, item_id, price) ==
    /\ Free(w)
    /\ LET auth == get_current_admin_user(tok, now, users)
           r == [Entered(op, auth) EXCEPT !.id = item_id, !.price = price]
       IN  req' = [req EXCEPT ![w] =
                IF auth.status # 200 THEN r
                ELSE IF item_id \notin ItemIds
                     THEN Answer([r EXCEPT !.touched = TRUE], 404)
                     ELSE [r EXCEPT !.touched = TRUE, !.pc = "write"]]
    /\ UNCHANGED <<items, customers, orders, order_items, seq, placed, aborted>>
    /\ UNCHANGED_auth

update_item_select(w, tok, item_id, price) ==
    item_select(w, "update_item", tok, item_id, price)

\* update_item: UPDATE items SET ... WHERE id = %s, and the commit
\* (were the line items priced by reference to the item, they would follow)
update_item_update_reprices(w) ==
    /\ At(w, "update_item", "write")
    /\ items' = { IF i.id = req[w].id THEN [i EXCEPT !.price = req[w].price] ELSE i
                  : i \in items }
    /\ order_items' = { IF l.item_id = req[w].id
                        THEN [l EXCEPT
                                !.price_per_unit = req[w].price,
                                !.subtotal = LineSubtotal(l.quantity, req[w].price)]
                        ELSE l : l \in order_items }
    /\ req' = [req EXCEPT ![w] = Answer(req[w], 200)]
    /\ UNCHANGED <<customers, orders, seq, placed, aborted>>
    /\ UNCHANGED_auth
\* the statement names the items table alone
update_item_update(w) ==
    /\ At(w, "update_item", "write")
    /\ items' = { IF i.id = req[w].id THEN [i EXCEPT !.price = req[w].price] ELSE i
                  : i \in items }
    /\ req' = [req EXCEPT ![w] = Answer(req[w], 200)]
    /\ UNCHANGED <<customers, orders, order_items, seq, placed, aborted>>
    /\ UNCHANGED_auth

delete_item_select(w, tok, item_id) ==
    item_select(w, "delete_item", tok, item_id, 0)

\* DELETE FROM items WHERE id = %s: the tables items and order_items after it
delete_item_statement_cascade(its, lines, item_id) ==
    [items |-> {i \in its : i.id # item_id},
     order_items |-> {l \in lines : l.item_id # item_id}]
delete_item_statement(its, lines, item_id) ==
    [items |-> {i \in its : i.id # item_id},
     order_items |-> SetNullItem(lines, item_id)]

\* delete_item: the DELETE and the commit
delete_item_delete(w) ==
    /\ At(w, "delete_item", "write")
    /\ LET after == delete_item_statement(items, order_items, req[w].id)
       IN  /\ items' = after.items
           /\ order_items' = after.order_items
    /\ req' = [req EXCEPT ![w] = Answer(req[w], 200)]
    /\ UNCHANGED <<customers, orders, seq, placed, aborted>>
    /\ UNCHANGED_auth

\* create_customer: INSERT INTO customers ... RETURNING (no dependency on a user)
create_customer(w) ==
    /\ Free(w)
    /\ seq.customers < MaxCustomers
    /\ customers' = customers \cup {seq.customers + 1}
    /\ seq' = [seq EXCEPT !.customers = @ + 1]
    /\ req' = [req EXCEPT ![w] =
                 Answer([Idle EXCEPT !.op = "create_customer", !.touched = TRUE,
                                     !.id = seq.customers + 1], 201)]
    /\ UNCHANGED <<items, orders, order_items, placed, aborted>>
    /\ UNCHANGED_auth

\* delete_customer: SELECT id FROM customers WHERE id = %s, then 404 when
\* cur.rowcount == 0
delete_customer_select(w, tok, customer_id) ==
    /\ Free(w)
    /\ LET auth == get_current_admin_user(tok, now, users)
           r == [Entered("delete_customer", auth) EXCEPT !.id = customer_id]
       IN  req' = [req EXCEPT ![w] =
                IF auth.status # 200 THEN r
                ELSE IF customer_id \notin customers
                     THEN Answer([r EXCEPT !.touched = TRUE], 404)
                     ELSE [r EXCEPT !.touched = TRUE, !.pc = "write"]]
    /\ UNCHANGED <<items, customers, orders, order_items, seq, placed, aborted>>
    /\ UNCHANGED_auth

\* DELETE FROM customers WHERE id = %s: the tables customers and orders after it
delete_customer_statement_cascade(custs, ords, customer_id) ==
    [customers |-> custs \ {customer_id},
     orders |-> {o \in ords : o.customer_id # customer_id}]
delete_customer_statement(custs, ords, customer_id) ==
    [customers |-> custs \ {customer_id},
     orders |-> SetNullCustomer(ords, customer_id)]

\* an open create_order transaction whose header references the customer holds
\* the row's key-share lock: the DELETE waits for it to end
CustomerRowLocked(customer_id) ==
    \E v \in Workers : At(v, "create_order", "lines") /\ req[v].cust = customer_id

\* delete_customer: the DELETE and the commit
delete_customer_delete(w) ==
    /\ At(w, "delete_customer", "write")
    /\ ~CustomerRowLocked(req[w].id)
    /\ LET after == delete_customer_statement(customers, orders, req[w].id)
       IN  /\ customers' = after.customers
           /\ orders' = after.orders
    /\ req' = [req EXCEPT ![w] = Answer(req[w], 200)]
    /\ UNCHANGED <<items, order_items, seq, placed, aborted>>
    /\ UNCHANGED_auth

\* ======================================================== reporting engine
\* SUM(f) over a set of rows
SumOver(rows, f) ==
    LET sum[R \in SUBSET rows] ==
            IF R = {} THEN 0
            ELSE LET x == CHOOSE y \in R : TRUE
                 IN  f[x] + sum[R \ {x}]
    IN  sum[rows]

\* the orderings ORDER BY key DESC may return a set of rows in (ties in any order)
OrderByDesc(rows, key) ==
    { s \in [1..Cardinality(rows) -> rows] :
        /\ \A i, j \in DOMAIN s : i # j => s[i] # s[j]
        /\ \A i, j \in DOMAIN s : i < j => key[s[i]] >= key[s[j]] }
\* the orderings a query without ORDER BY may return a set of rows in
AnyOrder(rows) == OrderByDesc(rows, [x \in rows |-> 0])

\* end_date_exclusive = end_date + timedelta(days=1)
end_date_unadjusted(end_date) == end_date
end_date_exclusive(end_date) == end_date + 1

\* WHERE created_at >= start_date AND created_at < end_date_exclusive
InRange(created_at, start_date, end_date) ==
    /\ created_at >= Midnight(start_date)
    /\ created_at < Midnight(end_date_exclusive(end_date))

OrdersInRange(ords, sd, ed) == {o \in ords : InRange(o.created_at, sd, ed)}

\* get_sales_report, query 1: SELECT COALESCE(SUM(final_total), 0), COUNT(id),
\* COALESCE(SUM(discount_amount), 0) FROM orders WHERE ...
SalesSummary(ords, sd, ed) ==
    LET hit == OrdersInRange(ords, sd, ed) IN
    [total_revenue |-> SumOver(hit, [o \in hit |-> o.final_total]),
     total_orders |-> Cardinality(hit),
     total_discount_given |-> SumOver(hit, [o \in hit |-> o.discount_amount])]

\* get_sales_report, query 2: order_items JOIN items JOIN orders WHERE ...
\* GROUP BY i.id, i.name
SalesByItem(its, lines, ords, sd, ed) ==
    LET hit == {o.id : o \in OrdersInRange(ords, sd, ed)}
        sold(i) == {l \in lines : l.item_id = i.id /\ l.order_id \in hit}
    IN  { [id |-> i.id,
           total_quantity_sold |->
               SumOver(sold(i), [l \in sold(i) |-> l.quantity]),
           total_revenue_from_item |->
               SumOver(sold(i), [l \in sold(i) |-> l.subtotal])]
          : i \in {j \in its : sold(j) # {}} }

\* get_sales_report up to and including query 1
get_sales_report_summary(w, tok, start_date, end_date) ==
    /\ Free(w)
    /\ LET auth == get_current_admin_user(tok, now, users)
           r == [Entered("get_sales_report", auth) EXCEPT
                    !.sd = start_date, !.ed = end_date]
       IN  req' = [req EXCEPT ![w] =
                IF auth.status # 200 THEN r
                ELSE [r EXCEPT !.touched = TRUE, !.pc = "by_item",
                        !.q1 = {o.id : o \in OrdersInRange(orders, start_date, end_date)},
                        !.summary = SalesSummary(orders, start_date, end_date)]]
    /\ UNCHANGED <<items, customers, orders, order_items, seq, placed, aborted>>
    /\ UNCHANGED_auth

\* get_sales_report: query 2 and the response
get_sales_report_by_item(w) ==
    /\ At(w, "get_sales_report", "by_item")
    /\ LET r == req[w] IN
       LET found == SalesByItem(items, order_items, orders, r.sd, r.ed) IN
       \E rows \in OrderByDesc(found,
                               [x \in found |-> x.total_revenue_from_item]) :
          req' = [req EXCEPT ![w] =
                    Answer([r EXCEPT
                              !.q2 = {o.id : o \in OrdersInRange(orders, r.sd, r.ed)},
                              !.rows = rows], 200)]
    /\ UNCHANGED <<items, customers, orders, order_items, seq, placed, aborted>>
    /\ UNCHANGED_auth

\* get_customer_report: the WHERE clause is added only when both dates are given
CustomerStatsOrders(ords, customer_id, sd, ed) ==
    {o \in ords : /\ o.customer_id = customer_id
                  /\ (sd # NoDate /\ ed # NoDate) => InRange(o.created_at, sd, ed)}

\* customers c LEFT JOIN (SELECT customer_id, COUNT(id), SUM(final_total) FROM
\* orders [WHERE ...] GROUP BY customer_id) with COALESCE(..., 0)
CustomerReport_inner_join(custs, ords, sd, ed) ==
    { [id |-> c,
       total_orders |-> Cardinality(CustomerStatsOrders(ords, c, sd, ed)),
       total_spent |->
           SumOver(CustomerStatsOrders(ords, c, sd, ed),
                   [o \in CustomerStatsOrders(ords, c, sd, ed) |-> o.final_total])]
      : c \in {x \in custs : CustomerStatsOrders(ords, x, sd, ed) # {}} }
CustomerReport(custs, ords, sd, ed) ==
    { [id |-> c,
       total_orders |-> Cardinality(CustomerStatsOrders(ords, c, sd, ed)),
       total_spent |->
           SumOver(CustomerStatsOrders(ords, c, sd, ed),
                   [o \in CustomerStatsOrders(ords, c, sd, ed) |-> o.final_total])]
      : c \in custs }

get_customer_report(w, tok, start_date, end_date) ==
    /\ Free(w)
    /\ LET auth == get_current_admin_user(tok, now, users)
           r == [Entered("get_customer_report", auth) EXCEPT
                    !.sd = start_date, !.ed = end_date]
           found == CustomerReport(customers, orders, start_date, end_date)
       IN  IF auth.status # 200 THEN req' = [req EXCEPT ![w] = r]
           ELSE \E rows \in OrderByDesc(found, [x \in found |-> x.total_spent]) :
                  req' = [req EXCEPT ![w] =
                     Answer([r EXCEPT !.touched = TRUE, !.rows = rows], 200)]
    /\ UNCHANGED <<items, customers, orders, order_items, seq, placed, aborted>>
    /\ UNCHANGED_auth

\* get_order_details_report: orders o LEFT JOIN customers c ... ORDER BY
\* o.created_at DESC (customer_name stands as the customer's id, NULL when none)
OrderDetails(custs, ords, sd, ed) ==
    { [id |-> o.id, created_at |-> o.created_at, final_total |-> o.final_total,
       customer_name |-> IF o.customer_id \in custs THEN o.customer_id ELSE NULL]
      : o \in OrdersInRange(ords, sd, ed) }

get_order_details_report(w, tok, start_date, end_date) ==
    /\ Free(w)
    /\ LET auth == get_current_admin_user(tok, now, users)
           r == [Entered("get_order_details_report", auth) EXCEPT
                    !.sd = start_date, !.ed = end_date]
           found == OrderDetails(customers, orders, start_date, end_date)
       IN  IF auth.status # 200 THEN req' = [req EXCEPT ![w] = r]
           ELSE \E rows \in OrderByDesc(found, [x \in found |-> x.created_at]) :
                  req' = [req EXCEPT ![w] =
                     Answer([r EXCEPT !.touched = TRUE, !.rows = rows], 200)]
    /\ UNCHANGED <<items, customers, orders, order_items, seq, placed, aborted>>
    /\ UNCHANGED_auth

\* get_customer_orders: SELECT id, created_at, final_total FROM orders WHERE
\* customer_id = %s ORDER BY created_at DESC
CustomerOrders(ords, customer_id) ==
    { [id |-> o.id, created_at |-> o.created_at, final_total |-> o.final_total]
      : o \in {x \in ords : x.customer_id = customer_id} }

get_customer_orders(w, tok, customer_id) ==
    /\ Free(w)
    /\ LET auth == get_current_admin_user(tok, now, users)
           r == [Entered("get_customer_orders", auth) EXCEPT !.id = customer_id]
           found == CustomerOrders(orders, customer_id)
       IN  IF auth.status # 200 THEN req' = [req EXCEPT ![w] = r]
           ELSE \E rows \in OrderByDesc(found, [x \in found |-> x.created_at]) :
                  req' = [req EXCEPT ![w] =
                     Answer([r EXCEPT !.touched = TRUE, !.rows = rows], 200)]
    /\ UNCHANGED <<items, customers, orders, order_items, seq, placed, aborted>>
    /\ UNCHANGED_auth

\* get_order_line_items: order_items oi JOIN items i ON oi.item_id = i.id WHERE
\* oi.order_id = %s (item_name stands as the item's id)
OrderLineItems(its, lines, order_id) ==
    { [id |-> l.id, item_name |-> l.item_id, quantity |-> l.quantity,
       price_per_unit |-> l.price_per_unit, subtotal |-> l.subtotal]
      : l \in {x \in lines : x.order_id = order_id
                             /\ x.item_id \in {i.id : i \in its}} }

get_order_line_items(w, tok, order_id) ==
    /\ Free(w)
    /\ LET auth == get_current_admin_user(tok, now, users)
           r == [Entered("get_order_line_items", auth) EXCEPT !.id = order_id]
       IN  IF auth.status # 200 THEN req' = [req EXCEPT ![w] = r]
           ELSE \E rows \in AnyOrder(OrderLineItems(items, order_items, order_id)) :
                  req' = [req EXCEPT ![w] =
                     Answer([r EXCEPT !.touched = TRUE, !.rows = rows], 200)]
    /\ UNCHANGED <<items, customers, orders, order_items, seq, placed, aborted>>
    /\ UNCHANGED_auth

\* ===================================================== token service, steps
NoAnswer == [op |-> "none", tok |-> NoToken, at |-> 0, status |-> 0,
             username |-> NoSub, role |-> ""]

\* the clock advances
Tick ==
    /\ now < MaxTime
    /\ now' = now + 1
    /\ verified' = NoAnswer
    /\ UNCHANGED <<users, items, customers, orders, order_items, seq, req,
                   placed, aborted, issued>>

\* login_for_access_token (POST /token)
login_for_access_token(username, password) ==
    /\ Cardinality(issued) < MaxIssued
    /\ LET user == get_user(username, users)
           ok == user.found /\ verify_password(password, user.hashed_password)
           access_token == create_access_token(
                              [sub |-> user.username, role |-> user.role], now)
       IN  /\ issued' = IF ok THEN issued \cup {access_token} ELSE issued
           /\ verified' = [op |-> "login",
                           tok |-> IF ok THEN access_token ELSE NoToken,
                           at |-> now, status |-> IF ok THEN 200 ELSE 401,
                           username |-> username, role |-> user.role]
    /\ UNCHANGED <<now, users, items, customers, orders, order_items, seq, req,
                   placed, aborted>>

\* a request presents a bearer token: Depends(security.get_current_user)
verify(tok) ==
    /\ LET current_user == get_current_user(tok, now, users)
       IN  verified' = [op |-> "verify", tok |-> tok, at |-> now,
                        status |-> current_user.status,
                        username |-> current_user.username,
                        role |-> current_user.role]
    /\ UNCHANGED <<now, users, items, customers, orders, order_items, seq, req,
                   placed, aborted, issued>>

\* create_admin.py: INSERT INTO users (username, hashed_password, role) with
\* the role 'admin'; a taken username raises, which the script prints
create_admin_user(username, password) ==
    /\ username \notin DOMAIN users
    /\ users' = (username :> [hashed_password |-> get_password_hash(password),
                              role |-> "admin"]) @@ users
    /\ verified' = NoAnswer
    /\ UNCHANGED <<now, items, customers, orders, order_items, seq, req,
                   placed, aborted, issued>>

\* ========================================================== initial states
Init ==
    /\ now = 0
    /\ users = [u \in {"alice", "bob"} |->
                  [hashed_password |-> get_password_hash("pw"),
                   role |-> IF u = "alice" THEN "admin" ELSE "user"]]
    /\ items = {[id |-> 1, price |-> 500], [id |-> 2, price |-> 1000]}
    /\ customers = {1}
    /\ orders = {}
    /\ order_items = {}
    /\ seq = [orders |-> 0, order_items |-> 0, items |-> 2, customers |-> 1]
    /\ req = [w \in Workers |-> Idle]
    /\ placed = <<>>
    /\ aborted = {}
    /\ issued = {}
    /\ verified = NoAnswer

\* ================================================================== inputs
AdminToken == create_access_token([sub |-> "alice", role |-> "admin"], 0)
UserToken == create_access_token([sub |-> "bob", role |-> "user"], 0)
Bearers == {AdminToken, UserToken, NoToken}

Carts == { <<>>, <<Line(1, 2, 1000), Line(2, 1, 500)>> }
CustomerRefs == {NULL, 1}
Dates == 0..(MaxTime \div TicksPerDay)

\* ================================== the store under concurrent requests
Next ==
    \E w \in Workers :
        \/ /\ seq.orders < MaxOrders
           /\ \E cart \in Carts, cust \in CustomerRefs :
                 create_order_insert_header(w, UserToken, cart, 10, cust, 0)
        \/ create_order_insert_items(w)
        \/ create_order_fault(w)
        \/ delete_item_select(w, AdminToken, 2)
        \/ delete_item_delete(w)
        \/ delete_customer_select(w, AdminToken, 1)
        \/ delete_customer_delete(w)
        \/ get_sales_report_summary(w, AdminToken, 0, 0)
        \/ get_sales_report_by_item(w)
        \/ get_customer_report(w, AdminToken, NoDate, NoDate)
        \/ get_order_details_report(w, AdminToken, 0, 0)
        \/ get_customer_orders(w, AdminToken, 1)
        \/ \E id \in 1..MaxOrders : get_order_line_items(w, AdminToken, id)

Spec == Init /\ [][Next]_vars

\* ================== the admin-only endpoints, one request at a time, any bearer
\* a store with one order in it
InitAdmin ==
    LET cart == <<Line(1, 2, 1000), Line(2, 1, 500)>> IN
    /\ now = 0
    /\ users = [u \in {"alice", "bob"} |->
                  [hashed_password |-> get_password_hash("pw"),
                   role |-> IF u = "alice" THEN "admin" ELSE "user"]]
    /\ items = {[id |-> 1, price |-> 500], [id |-> 2, price |-> 1000]}
    /\ customers = {1}
    /\ orders = {OrderRow(1, Subtotal(cart), 10, 1, 0)}
    /\ order_items = OrderItemRows(1, cart, 0)
    /\ seq = [orders |-> 1, order_items |-> 2, items |-> 2, customers |-> 1]
    /\ req = [w \in Workers |-> Idle]
    /\ placed = (1 :> [cart |-> cart, disc |-> 10, cust |-> 1, total |-> 0])
    /\ aborted = {}
    /\ issued = {}
    /\ verified = NoAnswer

NextAdmin ==
    \/ \E tok \in Bearers : add_item(1, tok, 500)
    \/ \E tok \in Bearers, id \in 1..MaxItems : update_item_select(1, tok, id, 700)
    \/ update_item_update(1)
    \/ \E tok \in Bearers, id \in 1..MaxItems : delete_item_select(1, tok, id)
    \/ delete_item_delete(1)
    \/ create_customer(1)
    \/ \E tok \in Bearers, id \in 1..MaxCustomers : delete_customer_select(1, tok, id)
    \/ delete_customer_delete(1)
    \/ \E tok \in Bearers : get_sales_report_summary(1, tok, 0, 0)
    \/ get_sales_report_by_item(1)
    \/ \E tok \in Bearers : get_customer_report(1, tok, NoDate, NoDate)
    \/ \E tok \in Bearers : get_order_details_report(1, tok, 0, 0)
    \/ \E tok \in Bearers, id \in 1..MaxCustomers : get_customer_orders(1, tok, id)
    \/ \E tok \in Bearers : get_order_line_items(1, tok, 1)

SpecAdmin == InitAdmin /\ [][NextAdmin]_vars

\* ========================= one createOrder on the initial store, any cart
Quantities == {0 - 1, 0, 1, 2}
UnitPrices == {105, 500, 1000}
AnyLines == {Line(id, q, p) : id \in {1, 2}, q \in Quantities, p \in UnitPrices}
AnyCarts == UNION {[1..n -> AnyLines] : n \in 0..MaxCartLen}
AnyDiscounts == {0 - 10, 0, 10, 100, 150}

NextCalc ==
    \/ /\ seq.orders = 0
       /\ \E cart \in AnyCarts, disc \in AnyDiscounts :
             create_order_insert_header(1, UserToken, cart, disc, NULL, 7)
    \/ create_order_insert_items(1)
    \/ create_order_fault(1)

SpecCalc == Init /\ [][NextCalc]_vars

\* ============================== orders and reports while the clock runs
AdminTokenAt(t) == create_access_token([sub |-> "alice", role |-> "admin"], t)
UserTokenAt(t) == create_access_token([sub |-> "bob", role |-> "user"], t)

\* the sales report over any dates
NextSales ==
    \/ Tick
    \/ /\ seq.orders < MaxReportOrders
       /\ create_order_insert_header(1, UserTokenAt(now), <<Line(1, 1, 500)>>,
                                     0, NULL, 0)
    \/ create_order_insert_items(1)
    \/ \E sd \in Dates, ed \in Dates :
          get_sales_report_summary(1, AdminTokenAt(now), sd, ed)
    \/ get_sales_report_by_item(1)

SpecSales == Init /\ [][NextSales]_vars

\* the customer report over dates or none
ReportDates == {<<NoDate, NoDate>>, <<0, NoDate>>, <<0, 0>>, <<1, 1>>}
NextCustomers ==
    \/ Tick
    \/ /\ seq.orders < MaxReportOrders
       /\ \E cust \in {NULL, 1, 2} :
             create_order_insert_header(1, UserTokenAt(now), <<Line(1, 1, 500)>>,
                                        0, cust, 0)
    \/ create_order_insert_items(1)
    \/ create_customer(1)
    \/ delete_customer_select(1, AdminTokenAt(now), 1)
    \/ delete_customer_delete(1)
    \/ \E d \in ReportDates : get_customer_report(1, AdminTokenAt(now), d[1], d[2])

SpecCustomers == Init /\ [][NextCustomers]_vars

\* ================================================= the token service alone
\* what a request may present as its bearer token, besides the tokens issued
Presented ==
    {NoToken, Token(FALSE, "", "", NoSub, "", 0)} \cup
    { Token(TRUE, ka[1], ka[2], sub, "user", exp) :
        ka \in {<<SECRET_KEY, ALGORITHM>>, <<"other", ALGORITHM>>,
                <<SECRET_KEY, "none">>},
        sub \in {"alice", "dave", NoSub},
        exp \in {0, TicksPerDay} }

NextAuth ==
    \/ Tick
    \/ \E username \in Usernames, password \in {"pw", "bad"} :
          login_for_access_token(username, password)
    \/ \E tok \in issued \cup Presented : verify(tok)
    \/ create_admin_user("dave", "pw")

SpecAuth == Init /\ [][NextAuth]_vars

\* ================= every operation that writes, one request at a time, any bearer
\* a token signed with another key, naming the admin
ForgedToken == Token(TRUE, "other", ALGORITHM, "alice", "admin", TicksPerDay)
AnyBearers == Bearers \cup {ForgedToken}

NextWrites ==
    \/ /\ seq.orders < MaxOrders
       /\ \E tok \in AnyBearers, cust \in CustomerRefs :
             create_order_insert_header(1, tok, <<Line(1, 1, 500)>>, 0, cust, 0)
    \/ create_order_insert_items(1)
    \/ \E tok \in AnyBearers : add_item(1, tok, 500)
    \/ \E tok \in AnyBearers : update_item_select(1, tok, 1, 700)
    \/ update_item_update(1)
    \/ \E tok \in AnyBearers : delete_item_select(1, tok, 2)
    \/ delete_item_delete(1)
    \/ create_customer(1)
    \/ \E tok \in AnyBearers : delete_customer_select(1, tok, 1)
    \/ delete_customer_delete(1)

SpecWrites == Init /\ [][NextWrites]_vars

\* ============== updates and deletes of the same rows by concurrent requests
NextRace ==
    \E w \in Workers :
        \/ \E id \in {2, 3} : update_item_select(w, AdminToken, id, 700)
        \/ update_item_update(w)
        \/ \E id \in {2, 3} : delete_item_select(w, AdminToken, id)
        \/ delete_item_delete(w)
        \/ \E id \in {1, 2} : delete_customer_select(w, AdminToken, id)
        \/ delete_customer_delete(w)

SpecRace == Init /\ [][NextRace]_vars

\* ======================= a store with an order in it, under every operation
NextLedger ==
    \/ /\ seq.orders < MaxOrders + 1
       /\ \E cust \in CustomerRefs :
             create_order_insert_header(1, UserToken, <<Line(1, 1, 500)>>, 0, cust, 0)
    \/ create_order_insert_items(1)
    \/ create_order_fault(1)
    \/ add_item(1, AdminToken, 500)
    \/ \E id \in 1..2 : update_item_select(1, AdminToken, id, 700)
    \/ update_item_update(1)
    \/ \E id \in 1..2 : delete_item_select(1, AdminToken, id)
    \/ delete_item_delete(1)
    \/ create_customer(1)
    \/ delete_customer_select(1, AdminToken, 1)
    \/ delete_customer_delete(1)
    \/ get_sales_report_summary(1, AdminToken, 0, 0)
    \/ get_sales_report_by_item(1)
    \/ get_customer_report(1, AdminToken, NoDate, NoDate)
    \/ get_order_details_report(1, AdminToken, 0, 0)
    \/ get_customer_orders(1, AdminToken, 1)
    \/ get_order_line_items(1, AdminToken, 1)
    \/ login_for_access_token("alice", "pw")

SpecLedger == InitAdmin /\ [][NextLedger]_vars

\* ================================================================== claims
LinesOf(order_id) == {l \in order_items : l.order_id = order_id}
\* a row of order_items without its weak reference to the item
Captured(l) == [id |-> l.id, order_id |-> l.order_id, quantity |-> l.quantity,
                price_per_unit |-> l.price_per_unit, subtotal |-> l.subtotal]
\* the order's header is in the store together with one line item per cart line
Complete(order_id) ==
    /\ order_id \in DOMAIN placed
    /\ \E o \in orders : o.id = order_id
    /\ \E first \in 0..seq.order_items :
          {Captured(l) : l \in LinesOf(order_id)} =
          {Captured(l) : l \in OrderItemRows(order_id, placed[order_id].cart, first)}

RolledBack(w) ==
    /\ At(w, "create_order", "lines")
    /\ req'[w].pc = "done"
    /\ req'[w].status = 500

\* C1: createOrder is all-or-nothing. In every state of the committed store an
\* order header is there iff the whole set of its cart's line items is: every
\* header has its complete line items, every line item has its header, nothing
\* of a rolled-back createOrder is there; and the step that rolls a createOrder
\* back after its header insert leaves every table as it was.
C1_AllOrNothing ==
    /\ [](/\ \A o \in orders : Complete(o.id)
          /\ \A l \in order_items : \E o \in orders : o.id = l.order_id
          /\ \A id \in aborted : /\ \A o \in orders : o.id # id
                                 /\ LinesOf(id) = {})
    /\ [][\A w \in Workers : RolledBack(w) => store' = store]_vars

\* C1 witness: a createOrder whose header insert succeeded was rolled back
C1_Witness ==
    \E w \in Workers :
        /\ At(w, "create_order", "done")
        /\ req[w].status = 500
        /\ req[w].oid # NULL
        /\ req[w].oid \in aborted

\* the request passes the checks of createOrder's step 1
ValidRequest(p) ==
    /\ p.cart # <<>>
    /\ \A i \in 1..Len(p.cart) : p.cart[i].quantity > 0
    /\ p.disc >= 0 /\ p.disc <= 100

\* C2 as claimed: createOrder rejects, before any write, a request whose cart
\* is empty, that has a line with quantity <= 0, or whose discount percentage
\* is outside [0, 100]: no order row and no line item row comes from one.
C2_RejectsInvalid ==
    /\ \A o \in orders : ValidRequest(placed[o.id])
    /\ \A l \in order_items : ValidRequest(placed[l.order_id])

ExampleCart == <<Line(1, 2, 1000), Line(2, 1, 500)>>
Abs(x) == IF x < 0 THEN 0 - x ELSE x

\* C3: the order createOrder stores has subtotal = the sum over the cart lines
\* of quantity * price as submitted, one line item per cart line with the
\* submitted item, quantity and price, line-item subtotals that add up to the
\* order subtotal, final_total = subtotal * (1 - discount_percentage / 100) to
\* within half a cent, and discount_amount = subtotal - final_total; the cart
\* (2 x 10.00), (1 x 5.00) at 10% gives 25.00 / 2.50 / 22.50; a total sent by
\* the caller is not what is stored.
C3_TotalsFromCart ==
    \A o \in orders :
        LET p == placed[o.id]
            n == Len(p.cart)
        IN  /\ o.subtotal =
                  SumOver(1..n,
                          [i \in 1..n |-> p.cart[i].quantity * p.cart[i].price])
            /\ o.discount_percentage = p.disc
            /\ Cardinality(LinesOf(o.id)) = n
            /\ \E first \in 0..seq.order_items :
                  \A i \in 1..n : \E l \in LinesOf(o.id) :
                      /\ l.id = first + i
                      /\ l.item_id = p.cart[i].id
                      /\ l.quantity = p.cart[i].quantity
                      /\ l.price_per_unit = p.cart[i].price
                      /\ l.subtotal = p.cart[i].quantity * p.cart[i].price
            /\ SumOver(LinesOf(o.id), [l \in LinesOf(o.id) |-> l.subtotal])
                  = o.subtotal
            /\ Abs(100 * o.final_total - o.subtotal * (100 - p.disc)) <= 50
            /\ o.discount_amount = o.subtotal - o.final_total
            /\ (p.cart = ExampleCart /\ p.disc = 10) =>
                  /\ o.subtotal = 2500
                  /\ o.discount_amount = 250
                  /\ o.final_total = 2250

\* C3 witness: the example cart at 10% is stored as 25.00 / 2.50 / 22.50, the
\* caller having sent another total
C3_Witness ==
    \E o \in orders :
        /\ placed[o.id].cart = ExampleCart /\ placed[o.id].disc = 10
        /\ o.final_total = 2250
        /\ placed[o.id].total # o.final_total
        /\ Cardinality(LinesOf(o.id)) = 2

\* C4 as claimed: the summary and the sales_by_item breakdown of one sales
\* report response aggregate over the same set of committed orders.
C4_OneSnapshot ==
    \A w \in Workers :
        (At(w, "get_sales_report", "done") /\ req[w].status = 200)
            => req[w].q1 = req[w].q2

\* the order ids a response (or a report's first query) lets its reader see
SeenOrderIds(w) ==
    IF req[w].op = "get_sales_report" THEN req[w].q1 \cup req[w].q2
    ELSE IF req[w].op \in {"get_order_details_report", "get_customer_orders"}
         THEN {req[w].rows[i].id : i \in DOMAIN req[w].rows}
    ELSE {}
\* the order_items ids a response lets its reader see
SeenLineIds(w) ==
    IF req[w].op = "get_order_line_items"
    THEN {req[w].rows[i].id : i \in DOMAIN req[w].rows}
    ELSE {}
\* the number of orders a customer report counts
SeenOrderCount(w) ==
    IF req[w].op = "get_customer_report" /\ req[w].status = 200
    THEN SumSeq([i \in DOMAIN req[w].rows |-> req[w].rows[i].total_orders])
    ELSE 0

\* C5: no read observes a half-written order. Whatever a sales report, customer
\* report, order-detail report, customer order history or order line items
\* lookup returns while createOrder runs beside it, every order it shows (or
\* counts) is committed with all of its line items, every line item it shows
\* belongs to such an order, and an order that rolled back is never shown.
C5_NoHalfWrittenOrder ==
    \A w \in Workers :
        /\ \A id \in SeenOrderIds(w) : Complete(id) /\ id \notin aborted
        /\ \A lid \in SeenLineIds(w) :
              \E l \in order_items : l.id = lid /\ Complete(l.order_id)
        /\ SeenOrderCount(w) <= Cardinality({o \in orders : Complete(o.id)})

\* C5 witness: a sales report ran beside a createOrder that committed between
\* its two queries, and an order-detail report shows the committed order
C5_Witness ==
    \E w, v \in Workers :
        /\ At(w, "get_sales_report", "done")
        /\ req[w].q1 = {} /\ req[w].q2 # {}
        /\ At(v, "get_order_details_report", "done")
        /\ Len(req[v].rows) > 0

\* the step is the DELETE (and commit) of delete_item / delete_customer
Deletes(w, op) == At(w, op, "write") /\ req'[w].pc = "done"

\* C7: deleting a customer or an item never deletes or alters historical
\* financial data. delete_customer leaves every order in place with all its
\* columns but customer_id, which it clears where it was the customer, and
\* leaves the line items alone; delete_item leaves every line item in place
\* with its order_id, quantity, price_per_unit and subtotal, clears item_id
\* where it was the item, and leaves the orders alone.
C7_DeleteKeepsHistory ==
    [][\A w \in Workers :
         /\ Deletes(w, "delete_customer") =>
              /\ order_items' = order_items
              /\ orders' = { IF o.customer_id = req[w].id
                             THEN [o EXCEPT !.customer_id = NULL] ELSE o
                             : o \in orders }
              /\ Cardinality(orders') = Cardinality(orders)
         /\ Deletes(w, "delete_item") =>
              /\ orders' = orders
              /\ order_items' = { IF l.item_id = req[w].id
                                  THEN [l EXCEPT !.item_id = NULL] ELSE l
                                  : l \in order_items }
              /\ Cardinality(order_items') = Cardinality(order_items)]_vars

\* C7 witness: an order placed for customer 1 with two line items outlived the
\* deletion of its customer and of one of its items
C7_Witness ==
    /\ \E w \in Workers : At(w, "delete_customer", "done") /\ req[w].status = 200
    /\ \E w \in Workers : At(w, "delete_item", "done") /\ req[w].status = 200
    /\ \E o \in orders :
          /\ placed[o.id].cust = 1 /\ o.customer_id = NULL
          /\ \E l \in LinesOf(o.id) : l.item_id = NULL
          /\ Cardinality(LinesOf(o.id)) = 2

AdminOnly ==
    {"add_item", "update_item", "delete_item", "delete_customer",
     "get_customer_orders", "get_order_line_items", "get_sales_report",
     "get_customer_report", "get_order_details_report"}

\* C10: an admin-only operation runs only for a verified identity whose role is
\* admin. Its handler touches the store only for an admin; a verified identity
\* of another role is answered 403 with the store untouched, in the step that
\* answers it too; an admin is never answered 401 or 403.
C10_AdminOnly ==
    /\ [](\A w \in Workers : req[w].op \in AdminOnly =>
            /\ req[w].touched => req[w].role = "admin"
            /\ req[w].role \notin {"", "admin"} =>
                  req[w].status = 403 /\ ~req[w].touched
            /\ req[w].role = "admin" => req[w].status \notin {401, 403})
    /\ [][\A w \in Workers :
            (req'[w] # req[w] /\ req'[w].op \in AdminOnly /\ req'[w].status = 403)
               => store' = store]_vars

\* C10 witness: a verified non-admin identity asked to delete an item and was
\* answered 403, the item still there
C10_Witness ==
    /\ At(1, "delete_item", "done")
    /\ req[1].role = "user" /\ req[1].status = 403
    /\ req[1].id \in ItemIds

SalesReportDone(w) == At(w, "get_sales_report", "done") /\ req[w].status = 200

CustomerReportDone(w) == At(w, "get_customer_report", "done") /\ req[w].status = 200

\* C8: the customer report lists every existing customer exactly once for any
\* arguments. Without both dates total_orders / total_spent are the count and
\* the sum of final_total of all the customer's orders; with both, of the
\* customer's orders created from start_date 00:00 up to the end of end_date; a
\* customer with no such order has 0 and 0; rows come by total_spent descending.
C8_CustomerReport ==
    \A w \in Workers : CustomerReportDone(w) =>
        LET rows == req[w].rows
            ranged == req[w].sd # NoDate /\ req[w].ed # NoDate
            mine(c) == {o \in orders :
                          /\ o.customer_id = c
                          /\ ranged => /\ o.created_at >= req[w].sd * TicksPerDay
                                       /\ o.created_at < (req[w].ed + 1) * TicksPerDay}
        IN  /\ Len(rows) = Cardinality(customers)
            /\ {rows[i].id : i \in DOMAIN rows} = customers
            /\ \A i \in DOMAIN rows :
                  /\ rows[i].total_orders = Cardinality(mine(rows[i].id))
                  /\ rows[i].total_spent =
                        SumOver(mine(rows[i].id),
                                [o \in mine(rows[i].id) |-> o.final_total])
                  /\ mine(rows[i].id) = {} =>
                        rows[i].total_orders = 0 /\ rows[i].total_spent = 0
            /\ \A i, j \in DOMAIN rows :
                  i < j => rows[i].total_spent >= rows[j].total_spent

\* C8 witness: a report for day 1 lists a customer whose only orders are of
\* another day with 0 and 0, after a customer with an order of day 1
C8_Witness ==
    \E w \in Workers :
        /\ CustomerReportDone(w) /\ req[w].sd = 1 /\ req[w].ed = 1
        /\ Len(req[w].rows) = 2
        /\ req[w].rows[1].total_orders = 1 /\ req[w].rows[1].total_spent = 500
        /\ req[w].rows[2].total_orders = 0 /\ req[w].rows[2].total_spent = 0
        /\ \E o \in orders : o.customer_id = req[w].rows[2].id

\* the token is one verify accepts at instant t with the users table tbl
Accepted(tok, t, tbl) == get_current_user(tok, t, tbl).status = 200

\* C9: token validity over time. A token issued by a successful login expires
\* at its issue time + the TTL (one day) and is accepted at every moment before
\* that as long as its subject's credential exists; verify answers 200 or 401,
\* and 401 for every token that is absent or malformed, signed with another key
\* or algorithm, past its expiry, without a subject, or whose subject resolves
\* to no credential; a token once past its expiry is never accepted again.
C9_TokenValidity ==
    /\ [](/\ \A tok \in issued :
                (now < tok.exp /\ tok.sub \in DOMAIN users) =>
                    Accepted(tok, now, users)
          /\ (verified.op = "login" /\ verified.status = 200) =>
                /\ verified.tok \in issued
                /\ verified.tok.exp = verified.at + TicksPerDay
                /\ verified.tok.sub = verified.username
          /\ verified.op = "verify" =>
                /\ verified.status \in {200, 401}
                /\ verified.status = 401 <=>
                      \/ ~verified.tok.present
                      \/ ~verified.tok.wf
                      \/ verified.tok.key # SECRET_KEY
                      \/ verified.tok.alg # ALGORITHM
                      \/ verified.at > verified.tok.exp
                      \/ verified.tok.sub = NoSub
                      \/ verified.tok.sub \notin DOMAIN users)
    /\ [][\A tok \in issued \cup Presented :
            now > tok.exp => ~Accepted(tok, now', users')]_vars

\* C9 witness: an issued token, its subject's credential still there, is
\* answered 401 after its expiry
C9_Witness ==
    /\ verified.op = "verify"
    /\ verified.tok \in issued
    /\ verified.tok.sub \in DOMAIN users
    /\ verified.at > verified.tok.exp
    /\ verified.status = 401

\* the operations that change the store
Writers ==
    {"create_order", "add_item", "update_item", "delete_item",
     "create_customer", "delete_customer"}

\* C11 as claimed: the store changes only on behalf of a request whose token
\* was verified. Every step that changes a table is the step of a request that
\* carries a verified identity, a customer row comes from such a request
\* alone, and the step of a request without one leaves every table as it was.
C11_WritesAuthenticated ==
    [][\A w \in Workers :
          (req'[w] # req[w] /\ req'[w].op \in Writers /\ req'[w].role = "")
             => store' = store]_vars


\* the row an update or delete request is about is in its table
TargetExists(op, id) ==
    IF op = "delete_customer" THEN id \in customers
    ELSE \E i \in items : i.id = id

\* the request of worker w is an update or delete answered in this step
Answered(w) ==
    /\ req'[w] # req[w]
    /\ req'[w].op \in {"update_item", "delete_item", "delete_customer"}
    /\ req'[w].pc = "done"

\* C12 as claimed: update_item, delete_item and delete_customer report success
\* only when the target row existed and was updated / removed by that very
\* call, and report 404 with the store unchanged when the id is absent, under
\* every interleaving of concurrent requests.
C12_SuccessMeansDone ==
    [][\A w \in Workers : Answered(w) =>
          /\ req'[w].status = 200 =>
                /\ TargetExists(req[w].op, req[w].id)
                /\ req[w].op # "update_item" => ~TargetExists(req[w].op, req[w].id)'
                /\ req[w].op = "update_item" =>
                      [id |-> req[w].id, price |-> req[w].price] \in items'
          /\ req'[w].status = 404 =>
                /\ ~TargetExists(req'[w].op, req'[w].id)
                /\ store' = store]_vars


\* what the line-items lookup shows of a line item, but for the item's name
Shown(l) == [id |-> l.id, quantity |-> l.quantity,
             price_per_unit |-> l.price_per_unit, subtotal |-> l.subtotal]

\* C13 as claimed: after any sequence of catalog operations the line-items
\* lookup of an existing order returns every line item created with the order
\* (same count, quantities, captured prices and subtotals), a line item whose
\* item was deleted included, and the total_revenue_from_item of a sales report
\* add up to the line-item subtotals of the orders in its range.
C13_LineItemsSurviveCatalog ==
    \A w \in Workers :
        /\ (/\ At(w, "get_order_line_items", "done") /\ req[w].status = 200
            /\ \E o \in orders : o.id = req[w].id) =>
               /\ Len(req[w].rows) = Cardinality(LinesOf(req[w].id))
               /\ {Shown(req[w].rows[i]) : i \in DOMAIN req[w].rows}
                     = {Shown(l) : l \in LinesOf(req[w].id)}
        /\ SalesReportDone(w) =>
               LET sold == {l \in order_items : l.order_id \in req[w].q1}
               IN  SumSeq([i \in DOMAIN req[w].rows |->
                             req[w].rows[i].total_revenue_from_item])
                      = SumOver(sold, [l \in sold |-> l.subtotal])


\* C14: orders are immutable financial records. Whatever step the system
\* takes (item price update, item create / delete, customer create / delete,
\* another createOrder, a report, a login), every committed order is still
\* there afterwards, one row per id, with the same subtotal,
\* discount_percentage, final_total, discount_amount and created_at, and with
\* the same line items of the same quantity, price_per_unit and subtotal; only
\* its customer_id and its line items' item_id may change, and only to null.
C14_OrdersImmutable ==
    [][/\ \A o \in orders :
             /\ \E o2 \in orders' :
                   /\ o2.id = o.id
                   /\ o2 = o \/ o2 = [o EXCEPT !.customer_id = NULL]
             /\ {Captured(l) : l \in {x \in order_items' : x.order_id = o.id}}
                   = {Captured(l) : l \in LinesOf(o.id)}
       /\ \A a \in orders', b \in orders' : a.id = b.id => a = b
       /\ \A l \in order_items :
             \E l2 \in order_items' :
                 l2 = l \/ l2 = [l EXCEPT !.item_id = NULL]
       /\ \A a \in order_items', b \in order_items' : a.id = b.id => a = b]_vars

\* C14 witness: order 1 as it was placed, after its customer and the item of
\* one of its lines were deleted, the price of the item of its other line was
\* changed, a customer and an item were added and another order was committed
C14_Witness ==
    /\ \E o \in orders :
          /\ o.id = 1 /\ o.customer_id = NULL /\ placed[1].cust = 1
          /\ o.subtotal = Subtotal(placed[1].cart)
    /\ \E l \in LinesOf(1) : l.item_id = NULL
    /\ \E l \in LinesOf(1) :
          /\ l.item_id = 1 /\ l.price_per_unit = 1000
          /\ [id |-> 1, price |-> 700] \in items
    /\ Cardinality(LinesOf(1)) = 2
    /\ \E o \in orders : o.id = 2
    /\ seq.customers > 1 /\ seq.items > 2


====
